---- MODULE Spec2Model ----
(***************************************************************************)
(* Model of the languagetool wrapper: the compact codec of                 *)
(* LightweightMatch (languagetool/data.py) and the LanguageTool API        *)
(* clients (languagetool/languagetool.py).                                 *)
(*                                                                         *)
(* A Python str is a sequence of one-character strings, so that the        *)
(* formatting and parsing of the codec are computed, not assumed.          *)
(***************************************************************************)
EXTENDS Integers, Sequences, FiniteSets, TLC

VARIABLES
    given,                  \* codec: the value the caller started from
    self,                   \* codec: the LightweightMatch in hand
    serialization,          \* codec: the short string in hand
    replacement_separator,  \* codec: separator of the last from_short_string
    raised,                 \* codec: exception of the last call
    calls,                  \* codec: the calls made so far, in order
    statuses,               \* server: the status codes it may answer with
    api_chunk_size,         \* list_dictionary_words: self.api_chunk_size
    limit,                  \* list_dictionary_words: the argument limit
    dictionary,             \* server: the words of the dictionary, in order
    offset,                 \* list_dictionary_words: the local offset
    res,                    \* list_dictionary_words: the local res
    pc_list,                \* list_dictionary_words: where the call stands
    is_add_action,          \* _multiple_words_helper: the argument
    words,                  \* _multiple_words_helper: the argument, as a list
    i_words,                \* _multiple_words_helper: i, the words taken so far
    words_that_could_not_be_processed,
    sent,                   \* server: the word requests received, in order
    answers,                \* server: the flag it answered each request with
    server_words,           \* server: the set of words of the dictionary
    pc_words,               \* _multiple_words_helper: where the call stands
    pending,                \* check_text: matches of the response not yet read
    json_match,             \* check_text: the loop variable json_match
    matches,                \* check_text: the local matches
    pc_check                \* check_text: where the call stands

codecVars == <<given, self, serialization, replacement_separator, calls>>

listVars == <<api_chunk_size, limit, dictionary, offset, res, pc_list>>

wordsVars ==
    <<is_add_action, words, i_words, words_that_could_not_be_processed, sent,
      answers, server_words, pc_words>>

checkVars == <<pending, json_match, matches, pc_check>>

vars == <<codecVars, listVars, wordsVars, checkVars, raised, statuses>>

(***************************************************************************)
(* Bounds of the model.                                                    *)
(***************************************************************************)
MaxOffset == 10
MaxRuleLen == 2
MaxPacked == 4
MaxChunk == 3
MaxLimit == 4
MaxDictSize == 5
MaxWords == 3
MaxReplacements == 2
MaxMatches == 2

(***************************************************************************)
(* Strings.                                                                *)
(***************************************************************************)
None == [kind |-> "None"]

Min(S) == CHOOSE x \in S : \A y \in S : x <= y

Strings(alphabet, maxlen) == UNION {[1..n -> alphabet] : n \in 0..maxlen}

Contains(s, sub) ==
    \E i \in 1..(Len(s) - Len(sub) + 1) : SubSeq(s, i, i + Len(sub) - 1) = sub

EndsWith(s, suffix) ==
    /\ Len(s) >= Len(suffix)
    /\ SubSeq(s, Len(s) - Len(suffix) + 1, Len(s)) = suffix

\* str.find(sub): the lowest index (from 1) where sub occurs in s, 0 if none
Find(s, sub) ==
    LET hits == {i \in 1..(Len(s) - Len(sub) + 1) :
                    SubSeq(s, i, i + Len(sub) - 1) = sub}
    IN  IF hits = {} THEN 0 ELSE Min(hits)

DigitChars == <<"0", "1", "2", "3", "4", "5", "6", "7", "8", "9">>

IsDigit(c) == \E d \in 1..10 : DigitChars[d] = c

DigitValue(c) == (CHOOSE d \in 1..10 : DigitChars[d] = c) - 1

RECURSIVE NatToDigits(_)
NatToDigits(n) ==
    IF n < 10 THEN <<DigitChars[n + 1]>>
    ELSE NatToDigits(n \div 10) \o <<DigitChars[(n % 10) + 1]>>

str_zero_empty(n) ==
    IF n = 0 THEN <<>>
    ELSE IF n < 0 THEN <<"-">> \o NatToDigits(0 - n) ELSE NatToDigits(n)

\* str(n) of a Python int
str(n) == IF n < 0 THEN <<"-">> \o NatToDigits(0 - n) ELSE NatToDigits(n)

RECURSIVE int(_)
\* int(s) of a non-empty string of ASCII digits
int(s) ==
    IF Len(s) = 0 THEN 0
    ELSE 10 * int(SubSeq(s, 1, Len(s) - 1)) + DigitValue(s[Len(s)])

RECURSIVE split_drop_empty(_, _)
split_drop_empty(s, sep) ==
    LET i == Find(s, sep)
        head == IF i = 0 THEN s ELSE SubSeq(s, 1, i - 1)
        rest == IF i = 0 THEN <<>>
                ELSE split_drop_empty(SubSeq(s, i + Len(sep), Len(s)), sep)
    IN  IF head = <<>> THEN rest ELSE <<head>> \o rest

RECURSIVE split(_, _)
\* s.split(sep) for a non-empty sep: leftmost, non-overlapping occurrences
split(s, sep) ==
    LET i == Find(s, sep)
    IN  IF i = 0 THEN <<s>>
        ELSE <<SubSeq(s, 1, i - 1)>> \o split(SubSeq(s, i + Len(sep), Len(s)), sep)

RECURSIVE join_no_separator(_, _)
join_no_separator(sep, parts) ==
    IF Len(parts) = 0 THEN <<>>
    ELSE parts[1] \o join_no_separator(sep, Tail(parts))

RECURSIVE join(_, _)
\* sep.join(parts)
join(sep, parts) ==
    IF Len(parts) = 0 THEN <<>>
    ELSE IF Len(parts) = 1 THEN parts[1]
    ELSE parts[1] \o sep \o join(sep, Tail(parts))

(***************************************************************************)
(* languagetool/data.py                                                    *)
(***************************************************************************)
LT_REPLACEMENT_SEPARATOR == <<"@", "|", "@">>

\* The character classes of LT_MATCH_REGEX: [^,]  [0-9]  [^}]
InClass(c, cls) ==
    CASE cls = "rule" -> c # ","
      [] cls = "digits" -> IsDigit(c)
      [] cls = "replacements" -> c # "}"

\* Where a greedy run of cls that starts at position i stops: the first
\* position from i on that is past the end of s or holds a character not in cls.
RunEnd(s, i, cls) ==
    LET stops == {j \in i..Len(s) : ~InClass(s[j], cls)}
    IN  IF stops = {} THEN Len(s) + 1 ELSE Min(stops)

\* The quantifier + of a group: the run from position i that stops at j is
\* not empty.
ZeroOrMore(i, j) == j >= i

OneOrMore(i, j) == j > i

\* LT_MATCH_REGEX.match(s):
\*   ^\((?P<rule>[^,]+),(?P<start>[0-9]+),(?P<end>[0-9]+)\)\{(?P<replacements>[^}]*)\}$
\* Every group is a greedy run that the following literal cannot be part of,
\* so the match is found without backtracking. Python's $ matches at the end
\* of the string and also just before a newline that ends the string.
LT_MATCH_REGEX(s) ==
    LET n  == Len(s)
        r1 == RunEnd(s, 2, "rule")
        a1 == RunEnd(s, r1 + 1, "digits")
        b1 == RunEnd(s, a1 + 1, "digits")
        x1 == RunEnd(s, b1 + 2, "replacements")
    IN  IF /\ n >= 1
           /\ s[1] = "("
           /\ OneOrMore(2, r1)
           /\ r1 <= n
           /\ s[r1] = ","
           /\ OneOrMore(r1 + 1, a1)
           /\ a1 <= n
           /\ s[a1] = ","
           /\ OneOrMore(a1 + 1, b1)
           /\ b1 + 1 <= n
           /\ s[b1] = ")"
           /\ s[b1 + 1] = "{"
           /\ x1 <= n
           /\ s[x1] = "}"
           /\ \/ x1 = n
              \/ x1 = n - 1 /\ s[n] = "\n"
        THEN [kind |-> "Match",
              rule |-> SubSeq(s, 2, r1 - 1),
              start |-> SubSeq(s, r1 + 1, a1 - 1),
              end |-> SubSeq(s, a1 + 1, b1 - 1),
              replacements |-> SubSeq(s, b1 + 2, x1 - 1)]
        ELSE None

LightweightMatch(rule, start, end, replacements) ==
    [kind |-> "LightweightMatch", rule |-> rule, start |-> start, end |-> end,
     replacements |-> replacements]

ValueError(what, text) == [kind |-> "ValueError", what |-> what, text |-> text]

from_short_string_unsplit(s, sep) ==
    LET match == LT_MATCH_REGEX(s)
    IN  IF match = None
        THEN ValueError("Malformed LT annotation string", s)
        ELSE LightweightMatch(match.rule, int(match.start), int(match.end),
                              <<match.replacements>>)

\* LightweightMatch.from_short_string(s, sep): the value returned or raised
from_short_string(s, sep) ==
    LET match == LT_MATCH_REGEX(s)
    IN  IF match = None
        THEN ValueError("Malformed LT annotation string", s)
        ELSE IF sep = <<>>
        THEN ValueError("empty separator", <<>>)
        ELSE LightweightMatch(match.rule, int(match.start), int(match.end),
                              split(match.replacements, sep))

\* LightweightMatch.to_short_string(m)
to_short_string(m) ==
    <<"(">> \o m.rule \o <<",">> \o str(m.start) \o <<",">> \o str(m.end)
        \o <<")", "{">> \o join(LT_REPLACEMENT_SEPARATOR, m.replacements) \o <<"}">>

(***************************************************************************)
(* languagetool/languagetool.py: the server and _send_to_api               *)
(***************************************************************************)
HTTP_OK == 200

\* The status codes of a server that may also fail
AnyStatus == {HTTP_OK, 500}

\* _send_to_api without its check of the status code
_send_to_api_unchecked(response) == response.json

\* _send_to_api: the value returned or raised for a response
\* [status_code |-> .., json |-> ..]
_send_to_api(response) ==
    IF response.status_code # HTTP_OK
    THEN ValueError("Unsuccessful LT API Call", response.status_code)
    ELSE response.json

\* The components that are not called keep these values
CodecIdle ==
    /\ given = None
    /\ self = None
    /\ serialization = None
    /\ replacement_separator = None
    /\ calls = <<>>

ListIdle ==
    /\ api_chunk_size = 0
    /\ limit = None
    /\ dictionary = <<>>
    /\ offset = 0
    /\ res = <<>>
    /\ pc_list = "idle"

WordsIdle ==
    /\ is_add_action = FALSE
    /\ words = <<>>
    /\ i_words = 0
    /\ words_that_could_not_be_processed = <<>>
    /\ sent = <<>>
    /\ answers = <<>>
    /\ server_words = {}
    /\ pc_words = "idle"

CheckIdle ==
    /\ pending = 0
    /\ json_match = None
    /\ matches = <<>>
    /\ pc_check = "idle"

(***************************************************************************)
(* LanguageToolDictManager.list_dictionary_words                           *)
(***************************************************************************)
Limit(n) == [kind |-> "int", value |-> n]

\* GET words?offset=..&limit=..: the server's page of the dictionary
Page(page_offset, page_limit) ==
    SubSeq(dictionary, page_offset + 1,
           IF page_offset + page_limit < Len(dictionary)
           THEN page_offset + page_limit ELSE Len(dictionary))

\* _dict_words_helper(offset, limit): the value returned or raised
_dict_words_helper(page_offset, page_limit, status) ==
    LET json_response ==
            _send_to_api([status_code |-> status,
                          json |-> [words |-> Page(page_offset, page_limit)]])
    IN  IF status # HTTP_OK THEN json_response ELSE json_response.words

InitList ==
    /\ api_chunk_size \in 0..MaxChunk
    /\ limit \in {None} \cup {Limit(n) : n \in 0..MaxLimit}
    /\ dictionary \in {[k \in 1..n |-> k] : n \in 0..MaxDictSize}
    /\ statuses \in {{HTTP_OK}, AnyStatus}
    /\ offset = 0
    /\ res = <<>>
    /\ pc_list = "while"
    /\ raised = None
    /\ CodecIdle
    /\ WordsIdle
    /\ CheckIdle

\* while limit is None or offset < limit:
ListWhile ==
    /\ pc_list = "while"
    /\ pc_list' = IF limit = None THEN "request"
                  ELSE IF offset < limit.value THEN "request" ELSE "returned"
    /\ UNCHANGED <<api_chunk_size, limit, dictionary, offset, res>>
    /\ UNCHANGED <<codecVars, wordsVars, checkVars, raised, statuses>>

\* The body of the loop: one page is requested and appended to res
ListRequest ==
    /\ pc_list = "request"
    /\ \E status \in statuses :
          LET new_words == _dict_words_helper(offset, api_chunk_size, status)
          IN  IF status # HTTP_OK
              THEN /\ raised' = new_words
                   /\ pc_list' = "raised"
                   /\ UNCHANGED <<offset, res>>
              ELSE /\ offset' = offset + Len(new_words)
                   /\ res' = res \o new_words
                   /\ pc_list' = IF Len(new_words) < api_chunk_size
                                 THEN "returned" ELSE "while"
                   /\ UNCHANGED raised
    /\ UNCHANGED <<api_chunk_size, limit, dictionary>>
    /\ UNCHANGED <<codecVars, wordsVars, checkVars, statuses>>

NextList == ListWhile \/ ListRequest

SpecList == InitList /\ [][NextList]_vars

\* The call runs on: a step that can be taken is taken
FairSpecList == SpecList /\ WF_vars(NextList)

(***************************************************************************)
(* LanguageToolDictManager.add_dictionary_words / delete_dictionary_words  *)
(***************************************************************************)
Url(add) == IF add THEN "words/add" ELSE "words/delete"

ResultKey(add) == IF add THEN "added" ELSE "deleted"

\* The server's answer to POST words/add or words/delete with a flag
Answer(url, flag) ==
    IF url = "words/add" THEN [added |-> flag] ELSE [deleted |-> flag]

\* _single_word_helper(is_add_action, word): the value returned or raised
_single_word_helper(add, word, status, flag) ==
    LET json_response ==
            _send_to_api([status_code |-> status, json |-> Answer(Url(add), flag)])
    IN  IF status # HTTP_OK THEN json_response
        ELSE json_response[ResultKey(add)]

\* The list of failed words after a word was answered with is_successful
AppendFailed_if_successful(failed, word, is_successful) ==
    IF is_successful THEN Append(failed, word) ELSE failed

AppendFailed(failed, word, is_successful) ==
    IF ~is_successful THEN Append(failed, word) ELSE failed

WordNames == {"a", "b"}

InitWords ==
    /\ is_add_action \in BOOLEAN
    /\ words \in UNION {[1..n -> WordNames] : n \in 0..MaxWords}
    /\ server_words \in SUBSET WordNames
    /\ statuses \in {{HTTP_OK}, AnyStatus}
    /\ i_words = 0
    /\ words_that_could_not_be_processed = <<>>
    /\ sent = <<>>
    /\ answers = <<>>
    /\ pc_words = "loop"
    /\ raised = None
    /\ CodecIdle
    /\ ListIdle
    /\ CheckIdle

\* One round of the loop over words: the request for the next word
WordsStep ==
    /\ pc_words = "loop"
    /\ i_words < Len(words)
    /\ LET word == words[i_words + 1]
       IN  \E status \in statuses, flag \in BOOLEAN :
             LET is_successful ==
                     _single_word_helper(is_add_action, word, status, flag)
             IN  /\ sent' = Append(sent, [url |-> Url(is_add_action), word |-> word])
                 /\ IF status # HTTP_OK
                    THEN /\ raised' = is_successful
                         /\ pc_words' = "raised"
                         /\ UNCHANGED <<i_words, words_that_could_not_be_processed,
                                        answers, server_words>>
                    ELSE /\ i_words' = i_words + 1
                         /\ answers' = Append(answers, flag)
                         /\ server_words' =
                               IF ~flag THEN server_words
                               ELSE IF is_add_action THEN server_words \cup {word}
                               ELSE server_words \ {word}
                         /\ words_that_could_not_be_processed' =
                               AppendFailed(words_that_could_not_be_processed,
                                            word, is_successful)
                         /\ UNCHANGED <<raised, pc_words>>
    /\ UNCHANGED <<is_add_action, words>>
    /\ UNCHANGED <<codecVars, listVars, checkVars, statuses>>

\* return words_that_could_not_be_processed
WordsReturn ==
    /\ pc_words = "loop"
    /\ i_words = Len(words)
    /\ pc_words' = "returned"
    /\ UNCHANGED <<is_add_action, words, i_words, words_that_could_not_be_processed,
                   sent, answers, server_words>>
    /\ UNCHANGED <<codecVars, listVars, checkVars, raised, statuses>>

NextWords == WordsStep \/ WordsReturn

SpecWords == InitWords /\ [][NextWords]_vars

(***************************************************************************)
(* LanguageToolChecker.check_text                                          *)
(*                                                                         *)
(* A JSON object is a function from its keys, a JSON array a sequence; a   *)
(* path is the sequence of keys and indexes that leads to a value.         *)
(***************************************************************************)
KeyError(key) == [kind |-> "KeyError", key |-> key]

LTRule(rule_id, description, issue_type, category) ==
    [kind |-> "LTRule", rule_id |-> rule_id, description |-> description,
     issue_type |-> issue_type, category |-> category]

LTContext(text, ctx_offset, length) ==
    [kind |-> "LTContext", text |-> text, offset |-> ctx_offset, length |-> length]

LTMatch(rule, start, end, replacements, message, short_message, context) ==
    [kind |-> "LTMatch", rule |-> rule, start |-> start, end |-> end,
     replacements |-> replacements, message |-> message,
     short_message |-> short_message, context |-> context]

Range(f) == {f[k] : k \in DOMAIN f}

RECURSIVE Has(_, _)
\* Every key of path is there: obj[path[1]][path[2]]... raises no KeyError
Has(obj, path) ==
    IF path = <<>> THEN TRUE
    ELSE /\ Head(path) \in DOMAIN obj
         /\ Has(obj[Head(path)], Tail(path))

\* The KeyError of the first of the subscripts, evaluated in their order,
\* whose key is missing; None if every one of them has its key
FirstKeyError(jm, subscripts) ==
    LET missing == {k \in 1..Len(subscripts) : ~Has(jm, subscripts[k])}
    IN  IF missing = {} THEN None
        ELSE LET path == subscripts[Min(missing)] IN KeyError(path[Len(path)])

RuleSubscripts ==
    <<  <<"rule">>,
        <<"rule", "id">>,
        <<"rule", "description">>,
        <<"rule", "issueType">>,
        <<"rule", "category">>,
        <<"rule", "category", "id">>,
        <<"rule", "category", "name">> >>

ContextSubscripts ==
    <<  <<"context">>,
        <<"context", "text">>,
        <<"context", "offset">>,
        <<"context", "length">> >>

MatchSubscripts(jm) ==
    <<  <<"offset">>, <<"length">>, <<"replacements">> >>
    \o (IF "replacements" \in DOMAIN jm
        THEN [k \in 1..Len(jm.replacements) |-> <<"replacements", k, "value">>]
        ELSE <<>>)
    \o << <<"message">>, <<"shortMessage">> >>

\* rule = LTRule(json_rule[..], ..): the value built or raised
BuildRule(jm) ==
    LET error == FirstKeyError(jm, RuleSubscripts)
    IN  IF error # None THEN error
        ELSE LTRule(jm.rule.id, jm.rule.description, jm.rule.issueType,
                    <<jm.rule.category.id, jm.rule.category.name>>)

BuildContext_when_present(jm) ==
    IF "context" \notin DOMAIN jm THEN None
    ELSE LET error == FirstKeyError(jm, ContextSubscripts)
         IN  IF error # None THEN error
             ELSE LTContext(jm.context.text, jm.context.offset, jm.context.length)

\* context = LTContext(json_match["context"][..], ..): the value built or raised
BuildContext(jm) ==
    LET error == FirstKeyError(jm, ContextSubscripts)
    IN  IF error # None THEN error
        ELSE LTContext(jm.context.text, jm.context.offset, jm.context.length)

\* The body of the loop of check_text for one json_match: the LTMatch built,
\* or the KeyError raised by the first subscript whose key is missing
BuildMatch(jm) ==
    LET rule == BuildRule(jm)
        context == BuildContext(jm)
        error == FirstKeyError(jm, MatchSubscripts(jm))
    IN  IF rule.kind = "KeyError" THEN rule
        ELSE IF context.kind = "KeyError" THEN context
        ELSE IF error # None THEN error
        ELSE LTMatch(
                rule,
                jm.offset,
                jm.offset + jm.length,
                [k \in 1..Len(jm.replacements) |-> jm.replacements[k].value],
                jm.message,
                jm.shortMessage,
                context)

\* Every key of a match object, as the path that leads to it
KeyPaths(jm) ==
    Range(RuleSubscripts) \cup Range(ContextSubscripts) \cup Range(MatchSubscripts(jm))

\* A match object of the service with every key, nrepl replacements
FullMatch(match_offset, length, nrepl) ==
    [rule |-> [id |-> "RULE_ID", description |-> "description",
               issueType |-> "misspelling",
               category |-> [id |-> "CATEGORY", name |-> "category name"]],
     context |-> [text |-> "context text", offset |-> 3, length |-> length],
     offset |-> match_offset,
     length |-> length,
     replacements |-> [k \in 1..nrepl |-> [value |-> <<"replacement", k>>]],
     message |-> "message",
     shortMessage |-> "short message"]

\* obj without the keys of the set keys
Without(obj, keys) == [k \in (DOMAIN obj) \ keys |-> obj[k]]

RECURSIVE Remove(_, _)
\* obj without the key that path leads to
Remove(obj, path) ==
    IF ~Has(obj, path) THEN obj
    ELSE IF Len(path) = 1 THEN Without(obj, {path[1]})
    ELSE [obj EXCEPT ![path[1]] = Remove(obj[path[1]], Tail(path))]

RECURSIVE RemoveAll(_, _)
RemoveAll(obj, paths) ==
    IF paths = {} THEN obj
    ELSE LET path == CHOOSE q \in paths : TRUE
         IN  RemoveAll(Remove(obj, path), paths \ {path})

\* The match objects of a response: complete, or with one or two keys missing
JsonMatches ==
    UNION { LET full == FullMatch(span[1], span[2], nrepl)
            IN  {full} \cup {RemoveAll(full, {p, q}) :
                                p \in KeyPaths(full), q \in KeyPaths(full)}
            : span \in {<<0, 0>>, <<MaxOffset, 4>>},
              nrepl \in 0..MaxReplacements }

InitCheck ==
    /\ pc_check = "call"
    /\ pending = 0
    /\ json_match = None
    /\ matches = <<>>
    /\ statuses \in {{HTTP_OK}, AnyStatus}
    /\ raised = None
    /\ CodecIdle
    /\ ListIdle
    /\ WordsIdle

\* json_response = _send_to_api(..); json_response["matches"] is evaluated
CheckCall ==
    /\ pc_check = "call"
    /\ \E status \in statuses, has_matches \in BOOLEAN, n \in 0..MaxMatches :
          LET json_response ==
                  _send_to_api([status_code |-> status,
                                json |-> IF has_matches
                                         THEN [matches |-> n] ELSE <<>>])
          IN  IF status # HTTP_OK
              THEN raised' = json_response /\ pc_check' = "raised"
                    /\ UNCHANGED pending
              ELSE IF "matches" \notin DOMAIN json_response
              THEN raised' = KeyError("matches") /\ pc_check' = "raised"
                    /\ UNCHANGED pending
              ELSE pending' = json_response.matches /\ pc_check' = "loop"
                    /\ UNCHANGED raised
    /\ UNCHANGED <<json_match, matches>>
    /\ UNCHANGED <<codecVars, listVars, wordsVars, statuses>>

\* One round of the loop: the next match object of the response is read
CheckMatch ==
    /\ pc_check = "loop"
    /\ pending > 0
    /\ \E jm \in JsonMatches :
          LET match == BuildMatch(jm)
          IN  /\ json_match' = jm
              /\ IF match.kind = "KeyError"
                 THEN raised' = match /\ pc_check' = "raised"
                       /\ UNCHANGED <<matches, pending>>
                 ELSE matches' = Append(matches, match)
                       /\ pending' = pending - 1
                       /\ UNCHANGED <<raised, pc_check>>
    /\ UNCHANGED <<codecVars, listVars, wordsVars, statuses>>

\* return matches
CheckReturn ==
    /\ pc_check = "loop"
    /\ pending = 0
    /\ pc_check' = "returned"
    /\ UNCHANGED <<pending, json_match, matches>>
    /\ UNCHANGED <<codecVars, listVars, wordsVars, raised, statuses>>

NextCheck == CheckCall \/ CheckMatch \/ CheckReturn

SpecCheck == InitCheck /\ [][NextCheck]_vars

(***************************************************************************)
(* The codec's callers: a caller holds a LightweightMatch or a short       *)
(* string and calls to_short_string and from_short_string in turn.         *)
(***************************************************************************)
Str(s) == [kind |-> "str", text |-> s]

RuleAlphabet == {"R", ",", "7"}

\* A rule id that holds a whole header of the format
HeaderRule == <<"R", ",", "1", ",", "2", ")", "{">>

RuleIds == Strings(RuleAlphabet, MaxRuleLen) \cup {HeaderRule}

Offsets == {-1} \cup (0..MaxOffset)

ReplAlphabet == {"a", "@", "|", "}"}

RECURSIVE Unpack(_)
\* The tuple of strings that a packed string lists, "/" between them
Unpack(packed) ==
    LET i == Find(packed, <<"/">>)
    IN  IF i = 0 THEN <<packed>>
        ELSE <<SubSeq(packed, 1, i - 1)>> \o Unpack(SubSeq(packed, i + 1, Len(packed)))

\* Tuples of replacement strings, MaxPacked characters and separators in all
ReplacementTuples ==
    {<<>>} \cup {Unpack(p) : p \in Strings(ReplAlphabet \cup {"/"}, MaxPacked)}

\* The LightweightMatch values callers start from: every rule and span with
\* few replacements, and every tuple of replacements with one rule and span.
Matches ==
    {LightweightMatch(r, s, e, t) :
        r \in RuleIds, s \in Offsets, e \in Offsets, t \in {<<>>, <<<<"a">>>>}}
    \cup {LightweightMatch(<<"R">>, 0, MaxOffset, t) : t \in ReplacementTuples}

\* Well-formed short strings, as to_short_string writes them
BaseStrings ==
    {to_short_string(LightweightMatch(r, se[1], se[2], <<x>>)) :
        r \in {<<"R">>, <<"R", "7">>},
        se \in {<<0, MaxOffset>>, <<7, 7>>, <<MaxOffset, 0>>},
        x \in {<<>>, <<"a", "@", "|", "@", "a">>, <<"a", "|", "|", "a">>}}

EditChars == {"(", ")", "{", "}", ",", "0", "7", "-", "a", "@", "|", "\n"}

\* The strings one edit away from s: a character deleted, inserted or replaced
Edits(s) ==
    {SubSeq(s, 1, i - 1) \o SubSeq(s, i + 1, Len(s)) : i \in 1..Len(s)}
    \cup {SubSeq(s, 1, i) \o <<c>> \o SubSeq(s, i + 1, Len(s)) :
            i \in 0..Len(s), c \in EditChars}
    \cup {SubSeq(s, 1, i - 1) \o <<c>> \o SubSeq(s, i + 1, Len(s)) :
            i \in 1..Len(s), c \in EditChars}

\* The short strings callers start from
InputStrings == BaseStrings \cup UNION {Edits(s) : s \in BaseStrings}

Separators == {LT_REPLACEMENT_SEPARATOR, <<"|", "|">>, <<"a">>, <<>>}

InitCodec ==
    /\ \/ /\ given \in Matches
          /\ self = given
          /\ serialization = None
       \/ /\ given \in {Str(s) : s \in InputStrings}
          /\ self = None
          /\ serialization = given
    /\ replacement_separator = None
    /\ raised = None
    /\ calls = <<>>
    /\ statuses = {HTTP_OK}
    /\ ListIdle
    /\ WordsIdle
    /\ CheckIdle

MayCall(name) ==
    /\ Len(calls) < 2
    /\ IF calls = <<>> THEN TRUE ELSE calls[Len(calls)] # name

\* serialization = self.to_short_string()
ToShortString ==
    /\ MayCall("to_short_string")
    /\ self # None
    /\ serialization' = Str(to_short_string(self))
    /\ calls' = Append(calls, "to_short_string")
    /\ UNCHANGED <<given, self, replacement_separator, raised>>
    /\ UNCHANGED <<listVars, wordsVars, checkVars, statuses>>

\* self = LightweightMatch.from_short_string(serialization, sep)
FromShortString ==
    /\ MayCall("from_short_string")
    /\ serialization # None
    /\ \E sep \in Separators :
          LET parsed_annotation == from_short_string(serialization.text, sep)
          IN  /\ replacement_separator' = Str(sep)
              /\ IF parsed_annotation.kind = "ValueError"
                 THEN raised' = parsed_annotation /\ self' = None
                 ELSE raised' = None /\ self' = parsed_annotation
    /\ calls' = Append(calls, "from_short_string")
    /\ UNCHANGED <<given, serialization>>
    /\ UNCHANGED <<listVars, wordsVars, checkVars, statuses>>

NextCodec == ToShortString \/ FromShortString

SpecCodec == InitCodec /\ [][NextCodec]_vars

(***************************************************************************)
(* Vocabulary of the codec's properties.                                   *)
(***************************************************************************)
Comma == <<",">>

Malformed(s) == ValueError("Malformed LT annotation string", s)

DefaultSeparator == replacement_separator = Str(LT_REPLACEMENT_SEPARATOR)

\* m.to_short_string() was decoded again with the default separator
RoundTripped ==
    /\ calls = <<"to_short_string", "from_short_string">>
    /\ DefaultSeparator

\* from_short_string was called on the caller's string
Decoded == calls = <<"from_short_string">>

\* ... and the value it returned was encoded again
ReEncoded == calls = <<"from_short_string", "to_short_string">>

\* from_short_string was the last call and returned a value
Returned ==
    /\ calls # <<>>
    /\ calls[Len(calls)] = "from_short_string"
    /\ raised = None

NoReplacementHas(m, sub) ==
    \A i \in 1..Len(m.replacements) : ~Contains(m.replacements[i], sub)

\* The value a string of decimal digits denotes, most significant digit first
DigitOf ==
    ("0" :> 0) @@ ("1" :> 1) @@ ("2" :> 2) @@ ("3" :> 3) @@ ("4" :> 4) @@
    ("5" :> 5) @@ ("6" :> 6) @@ ("7" :> 7) @@ ("8" :> 8) @@ ("9" :> 9)

RECURSIVE Horner(_, _)
Horner(digits, acc) ==
    IF digits = <<>> THEN acc
    ELSE Horner(Tail(digits), 10 * acc + DigitOf[Head(digits)])

DecimalValue(digits) == Horner(digits, 0)

AllDigits(d) == Len(d) > 0 /\ \A i \in 1..Len(d) : d[i] \in DOMAIN DigitOf

\* The positions that delimit the fields of "(rule,start,end){body}": the
\* first comma, the comma after it and the first ")" after that (0: none).
After(s, i, c) ==
    LET k == Find(SubSeq(s, i + 1, Len(s)), <<c>>) IN IF k = 0 THEN 0 ELSE i + k

Comma1(s) == Find(s, Comma)

Comma2(s) == IF Comma1(s) = 0 THEN 0 ELSE After(s, Comma1(s), ",")

Paren(s) == IF Comma2(s) = 0 THEN 0 ELSE After(s, Comma2(s), ")")

RuleOf(s) == SubSeq(s, 2, Comma1(s) - 1)

StartOf(s) == SubSeq(s, Comma1(s) + 1, Comma2(s) - 1)

EndOf(s) == SubSeq(s, Comma2(s) + 1, Paren(s) - 1)

BodyOf(s) == SubSeq(s, Paren(s) + 2, Len(s) - 1)

\* s is "(" rule "," digits "," digits "){" body "}" from its first to its
\* last character, with a rule that is not empty
HasFormat(s) ==
    /\ Len(s) >= 1
    /\ s[1] = "("
    /\ Comma1(s) >= 3
    /\ Paren(s) # 0
    /\ AllDigits(StartOf(s))
    /\ AllDigits(EndOf(s))
    /\ Len(s) >= Paren(s) + 2
    /\ s[Paren(s) + 1] = "{"
    /\ s[Len(s)] = "}"

\* The grammar ^\(([^,]+),(\d+),(\d+)\)\{(.*)\}$ matched against all of s
ClaimedGrammar(s) == HasFormat(s) /\ ~Contains(BodyOf(s), <<"\n">>)

\* The grammar with a body that holds no "}"
BraceFree(s) == HasFormat(s) /\ ~Contains(BodyOf(s), <<"}">>)

\* s without the newline that ends it, if one does
Chomp(s) ==
    IF Len(s) >= 1 /\ s[Len(s)] = "\n" THEN SubSeq(s, 1, Len(s) - 1) ELSE s

\* The returned value is what the fields of s say, with the body split on sep
ReturnsFieldsOf(s, sep) ==
    /\ raised = None
    /\ self.kind = "LightweightMatch"
    /\ self.rule = RuleOf(s)
    /\ self.start = DecimalValue(StartOf(s))
    /\ self.end = DecimalValue(EndOf(s))
    /\ Len(self.replacements) >= 1
    /\ join(sep, self.replacements) = BodyOf(s)
    /\ NoReplacementHas(self, sep)
    /\ BodyOf(s) = <<>> => self.replacements = <<<<>>>>

\* Digits without their leading zeros
RECURSIVE StripZeros(_)
StripZeros(d) ==
    IF Len(d) > 1 /\ d[1] = "0" THEN StripZeros(Tail(d)) ELSE d

\* s with its numbers in canonical decimal form and without a final newline
Canonical(s) ==
    LET c == Chomp(s)
    IN  <<"(">> \o RuleOf(c) \o Comma \o StripZeros(StartOf(c)) \o Comma
            \o StripZeros(EndOf(c)) \o <<")", "{">> \o BodyOf(c) \o <<"}">>

(***************************************************************************)
(* C1                                                                      *)
(***************************************************************************)
RoundTripPrecondition ==
    /\ given.start >= 0
    /\ given.end >= 0
    /\ ~Contains(given.rule, Comma)
    /\ NoReplacementHas(given, LT_REPLACEMENT_SEPARATOR)

\* C1 as stated: every LightweightMatch with non-negative start and end, a
\* rule without a comma and replacements without the separator is returned
\* unchanged by from_short_string(m.to_short_string()). (Stated for the
\* matches that also keep the invariant of the data model, a rule that is not
\* empty and start <= end, and that have at least one replacement.)
C1_RoundTripAsStated ==
    ( /\ RoundTripped
      /\ RoundTripPrecondition
      /\ Len(given.rule) > 0
      /\ given.start <= given.end
      /\ Len(given.replacements) >= 1 )
    => (raised = None /\ self = given)

\* C1, amended: the round trip returns m when, in addition, the rule is not
\* empty, there is at least one replacement, no replacement holds "}" and no
\* replacement but the last ends with "@|" (the start of the separator).
C1_RoundTrip ==
    ( /\ RoundTripped
      /\ RoundTripPrecondition
      /\ Len(given.rule) > 0
      /\ Len(given.replacements) >= 1
      /\ NoReplacementHas(given, <<"}">>)
      /\ \A i \in 1..(Len(given.replacements) - 1) :
            ~EndsWith(given.replacements[i], <<"@", "|">>) )
    => (raised = None /\ self = given)

C1_Witness ==
    /\ RoundTripped
    /\ RoundTripPrecondition
    /\ Len(given.replacements) = 2
    /\ given.replacements[1] = <<"@">>
    /\ given.replacements[2] = <<"|", "@">>
    /\ given.end = MaxOffset
    /\ self = given

(***************************************************************************)
(* C2                                                                      *)
(***************************************************************************)
\* C2 as stated: for every string s that from_short_string accepts with the
\* default separator, from_short_string(s).to_short_string() is s.
C2_InverseAsStated ==
    (ReEncoded /\ DefaultSeparator) => serialization.text = given.text

\* C2, amended: the re-encoding of an accepted string s is s with the leading
\* zeros of start and end removed and without the newline that may end s; it
\* is s itself exactly when s has neither.
C2_Inverse ==
    (ReEncoded /\ DefaultSeparator) =>
        /\ serialization.text = Canonical(given.text)
        /\ serialization.text = given.text <=>
              /\ given.text = Chomp(given.text)
              /\ StripZeros(StartOf(given.text)) = StartOf(given.text)
              /\ StripZeros(EndOf(given.text)) = EndOf(given.text)

C2_Witness ==
    /\ ReEncoded
    /\ DefaultSeparator
    /\ Len(self.replacements) = 2
    /\ self.start = MaxOffset
    /\ serialization.text = given.text

(***************************************************************************)
(* C3                                                                      *)
(***************************************************************************)
\* C3 as stated: for every string s that matches the anchored grammar
\* ^\(([^,]+),(\d+),(\d+)\)\{(.*)\}$ and every separator sep,
\* from_short_string(s, sep) returns rule, start, end as written in s and the
\* text between "{" and the final "}" split on sep, never zero elements.
\* (Stated for the separators that are not empty.)
C3_DecodesAsStated ==
    ( /\ Decoded
      /\ ClaimedGrammar(given.text)
      /\ replacement_separator.text # <<>> )
    => ReturnsFieldsOf(given.text, replacement_separator.text)

\* C3, amended: the same holds for every string whose text between "{" and
\* the final "}" holds no "}" (a newline after the final "}" is ignored), and
\* every separator that is not empty.
C3_Decodes ==
    ( /\ Decoded
      /\ BraceFree(Chomp(given.text))
      /\ replacement_separator.text # <<>> )
    => ReturnsFieldsOf(Chomp(given.text), replacement_separator.text)

C3_Witness ==
    /\ Decoded
    /\ BraceFree(given.text)
    /\ replacement_separator.text = <<"|", "|">>
    /\ self.start = MaxOffset
    /\ self.replacements = <<<<"a">>, <<"a">>>>

(***************************************************************************)
(* C4                                                                      *)
(***************************************************************************)
\* C4: for every string that does not match the anchored grammar as a whole,
\* from_short_string raises the malformed-annotation error that carries the
\* string and returns no LightweightMatch. (Stated for the default separator
\* and for the strings that do not have the format even when "." stands for
\* any character, a newline too: they match the grammar under no reading.)
C4_MalformedRaises ==
    (Decoded /\ DefaultSeparator /\ ~HasFormat(given.text)) =>
        (raised = Malformed(given.text) /\ self = None)

(***************************************************************************)
(* C5                                                                      *)
(***************************************************************************)
\* C5 as stated: when the rule of m holds a comma or a replacement of m holds
\* the separator, from_short_string(m.to_short_string()) raises nothing and
\* returns a LightweightMatch other than m. (Stated for the matches with a
\* rule that is not empty, 0 <= start <= end, and replacements without "}".)
C5_SilentAsStated ==
    ( /\ RoundTripped
      /\ Len(given.rule) > 0
      /\ 0 <= given.start
      /\ given.start <= given.end
      /\ NoReplacementHas(given, <<"}">>)
      /\ \/ Contains(given.rule, Comma)
         \/ ~NoReplacementHas(given, LT_REPLACEMENT_SEPARATOR) )
    => (raised = None /\ self # given)

\* C5, amended: a replacement that holds the separator (in a match with a
\* non-empty rule without a comma, non-negative start and end and no "}" in a
\* replacement) silently comes back as more replacements; a rule that holds a
\* comma and no ")" makes from_short_string raise the malformed-annotation
\* error instead.
C5_Silent ==
    /\ ( /\ RoundTripped
         /\ Len(given.rule) > 0
         /\ ~Contains(given.rule, Comma)
         /\ given.start >= 0
         /\ given.end >= 0
         /\ NoReplacementHas(given, <<"}">>)
         /\ ~NoReplacementHas(given, LT_REPLACEMENT_SEPARATOR) )
       => ( /\ raised = None
            /\ self # given
            /\ self.rule = given.rule
            /\ Len(self.replacements) > Len(given.replacements) )
    /\ ( /\ RoundTripped
         /\ Contains(given.rule, Comma)
         /\ ~Contains(given.rule, <<")">>) )
       => (raised = Malformed(serialization.text) /\ self = None)

C5_Witness ==
    /\ RoundTripped
    /\ given.replacements = <<<<"a", "@", "|", "@">>>>
    /\ raised = None
    /\ self.replacements = <<<<"a">>, <<>>>>

(***************************************************************************)
(* C6                                                                      *)
(***************************************************************************)
\* C6 as stated: every LightweightMatch that from_short_string returns has a
\* rule that is not empty and start <= end.
C6_InvariantAsStated ==
    Returned => (Len(self.rule) > 0 /\ self.start <= self.end)

\* C6, amended: every LightweightMatch that from_short_string returns has a
\* rule that is not empty and holds no comma, start >= 0, end >= 0 and at
\* least one replacement; start and end are in the order the string gives.
C6_Invariant ==
    Returned =>
        /\ Len(self.rule) > 0
        /\ ~Contains(self.rule, Comma)
        /\ self.start >= 0
        /\ self.end >= 0
        /\ Len(self.replacements) >= 1

C6_Witness ==
    /\ Decoded
    /\ raised = None
    /\ self.start = MaxOffset
    /\ self.end = 0

(***************************************************************************)
(* C7                                                                      *)
(***************************************************************************)
\* A match object was read; Outcome is what building the LTMatch gave
MatchRead == json_match # None

Outcome == IF pc_check = "raised" THEN raised ELSE matches[Len(matches)]

Absent(jm, paths) == {path \in paths : ~Has(jm, path)}

LastKeys(paths) == {path[Len(path)] : path \in paths}

\* The keys C7 lists as required: all but context and its sub-fields
ClaimedRequired(jm) == Range(RuleSubscripts) \cup Range(MatchSubscripts(jm))

C8_AtMostLimit ==
    (pc_list = "returned" /\ limit # None /\ api_chunk_size >= 1) =>
        Len(res) <= limit.value

(***************************************************************************)
(* C9                                                                      *)
(***************************************************************************)
\* C9: list_dictionary_words(limit=None), against a server that serves the
\* pages of a fixed word list and never fails, eventually returns, and
\* returns the whole word list in the server's order, for every
\* api_chunk_size the constructor accepts and every dictionary size.
C9_ReturnsWholeList ==
    (limit = None /\ statuses = {HTTP_OK}) =>
        <>(pc_list = "returned" /\ res = dictionary)

(***************************************************************************)
(* C10                                                                     *)
(***************************************************************************)
RECURSIVE RefusedUpTo(_)
\* The words among the first n of words that the server answered FALSE to
RefusedUpTo(n) ==
    IF n = 0 THEN <<>>
    ELSE RefusedUpTo(n - 1) \o (IF answers[n] THEN <<>> ELSE <<words[n]>>)

\* C10: when every HTTP call returns status 200, add_dictionary_words and
\* delete_dictionary_words send one request per input word, in input order,
\* and return the input words whose flag ("added", "deleted") was false, in
\* order and with their duplicates; the result is empty exactly when every
\* word was reported successful.
C10_FailedWords ==
    pc_words = "returned" =>
        /\ Len(sent) = Len(words)
        /\ \A k \in 1..Len(words) :
              /\ sent[k].word = words[k]
              /\ sent[k].url = (IF is_add_action THEN "words/add" ELSE "words/delete")
        /\ Len(answers) = Len(words)
        /\ words_that_could_not_be_processed = RefusedUpTo(Len(words))
        /\ words_that_could_not_be_processed = <<>>
              <=> \A k \in 1..Len(words) : answers[k]

C10_Witness ==
    /\ pc_words = "returned"
    /\ words = <<"a", "b", "a">>
    /\ answers = <<FALSE, TRUE, FALSE>>
    /\ words_that_could_not_be_processed = <<"a", "a">>

(***************************************************************************)
(* C11                                                                     *)
(***************************************************************************)
\* The error _send_to_api raises for a status other than 200
TransportErrors ==
    {ValueError("Unsuccessful LT API Call", status) : status \in AnyStatus \ {HTTP_OK}}

\* The words among the first n of words that the server reported as changed
ChangedUpTo(n) == {words[j] : j \in {j \in 1..n : answers[j]}}

\* C11: when the request for the k-th word of add_dictionary_words or
\* delete_dictionary_words is answered with a status other than 200, the call
\* raises the error of _send_to_api there: requests were sent for the words
\* 1..k and the call takes no further step, so that no request is sent for a
\* later word and the list of the words that failed so far is not returned;
\* and every word the server reported as changed among the words 1..k-1 is
\* still in the dictionary, for an addition, or still out of it, for a
\* deletion.
C11_BatchAbort ==
    pc_words = "raised" =>
        LET k == i_words + 1
        IN  /\ raised \in TransportErrors
            /\ k <= Len(words)
            /\ Len(sent) = k
            /\ \A j \in 1..k :
                  sent[j] = [url |-> Url(is_add_action), word |-> words[j]]
            /\ ~ENABLED NextWords
            /\ Len(answers) = k - 1
            /\ words_that_could_not_be_processed = RefusedUpTo(k - 1)
            /\ \A word \in ChangedUpTo(k - 1) :
                  (word \in server_words) <=> is_add_action

\* The third request of an addition fails after one word was refused and
\* another added: the added word stays, the refused word is not reported
C11_Witness ==
    /\ pc_words = "raised"
    /\ is_add_action
    /\ words = <<"a", "b", "a">>
    /\ answers = <<FALSE, TRUE>>
    /\ Len(sent) = 3
    /\ words_that_could_not_be_processed = <<"a">>
    /\ "b" \in server_words
    /\ "a" \notin server_words

====
